---- MODULE Spec2Model ----
(***************************************************************************)
(* Session lifecycle of the IRMA server core: the in-memory session store  *)
(* (get, add, deleteExpired), session creation, and the handlers that      *)
(* advance a session, as an interleaving of reaper and handler threads.    *)
(* Time is counted in seconds.                                             *)
(***************************************************************************)
EXTENDS Integers, Sequences, FiniteSets, TLC

\* ------------------------------------------------------------------ bounds
MaxSessions == 2
MaxTime == 602
Tokens == {"tA", "tB"}
TickSteps == {300, 301}
ClientTimeouts == {0, 200}
OneToken == {"tA"}
OneTick == {301}

\* --------------------------------------------------------------- constants
maxSessionLifetime == 5 * 60

Reapers == {"r1", "r2"}
Handlers == {"h1", "h2"}
Threads == Reapers \cup Handlers
SessIds == 1..MaxSessions
NIL == 0

StatusInitialized == "INITIALIZED"
StatusConnected == "CONNECTED"
StatusCommunicating == "COMMUNICATING"
StatusCancelled == "CANCELLED"
StatusDone == "DONE"
StatusTimeout == "TIMEOUT"
NonTerminal == {StatusInitialized, StatusConnected, StatusCommunicating}
Terminal == {StatusCancelled, StatusDone, StatusTimeout}

VARIABLES
  now,      \* time.Now(), seconds
  m,        \* memorySessionStore.m : token -> session (NIL when absent)
  storeW,   \* memorySessionStore.RWMutex: thread holding the write lock
  storeR,   \* memorySessionStore.RWMutex: threads holding the read lock
  sess,     \* the session objects on the heap
  mu,       \* session.Mutex: thread holding it, or "none"
  live,     \* the threads of this run
  fatal,    \* "none", or why the process died
  rpc,      \* reaper: position in deleteExpired
  rlk,      \* reaper: the receiver's copy of the RWMutex
  rkeys,    \* reaper: tokens in the map when the range loop started
  rvisited, \* reaper: tokens the range loop has produced
  rtoken,   \* reaper: loop variable token
  rses,     \* reaper: loop variable session
  expired,  \* reaper: the slice of tokens to delete
  ridx,     \* reaper: index in expired of the second loop
  hpc,      \* handler: position
  hop,      \* handler: operation
  htoken,   \* handler: token argument
  hses,     \* handler: session obtained
  hres,     \* handler: outcome of the operation
  passT,    \* history: time at which the reaper's pass started
  passM,    \* history: the map when the pass started
  passS,    \* history: the sessions when the pass started
  quiet,    \* history: no other thread was active since the pass started
  nego,     \* a first client contact: the client's version range and its outcome
  perm,     \* a call of handlePermission: the configuration and the result
  tokgen,   \* a call of newSessionToken: the generator and the bytes written
  http      \* a call of HTTPTransport.request: the exchange and the result

storeVars == <<m, storeW, storeR>>
sessVars == <<sess, mu>>
reaperVars == <<rpc, rlk, rkeys, rvisited, rtoken, rses, expired, ridx>>
handlerVars == <<hpc, hop, htoken, hses, hres>>
histVars == <<passT, passM, passS, quiet>>
fnVars == <<nego, perm, tokgen, http>>
callVars == <<live, fnVars>>
vars == <<now, storeVars, sessVars, callVars, fatal, reaperVars, handlerVars, histVars>>

NoSession ==
  [token |-> "none", action |-> "none", status |-> "none", prevStatus |-> "none",
   lastActive |-> 0, clientTimeout |-> 0, nonce |-> 0, context |-> 0,
   evtSource |-> "nil", resultToken |-> "none", resultType |-> "none",
   resultStatus |-> "none"]
NoMap == [t \in Tokens |-> NIL]
NoSessions == [i \in SessIds |-> NoSession]

\* ---------------------------------------------------------------- session
Finished(st) == st \in {StatusDone, StatusCancelled, StatusTimeout}

markAlive(s, t) == [s EXCEPT !.lastActive = t]

setStatus(s, st) ==
  [s EXCEPT !.prevStatus = s.status, !.status = st, !.resultStatus = st]

\* variants of Timeout that a slip in the condition would produce
Timeout_IgnoresClientTimeout(s) == maxSessionLifetime

Timeout_AnyStatus(s) ==
  IF s.clientTimeout # 0 THEN s.clientTimeout ELSE maxSessionLifetime

Timeout(s) ==
  IF s.status = StatusInitialized /\ s.clientTimeout # 0
    THEN s.clientTimeout
    ELSE maxSessionLifetime

\* variant of IsExpired with the comparison not strict
IsExpired_NotStrict(s, t) == s.lastActive + Timeout(s) <= t

IsExpired(s, t) == s.lastActive + Timeout(s) < t

Allocated(i) == sess[i].status # "none"
InStore(i) == \E t \in Tokens : m[t] = i
Keys == {t \in Tokens : m[t] # NIL}

\* a session object nothing refers to any longer is garbage
Collect(S, M, H, R) ==
  [i \in SessIds |->
     IF \/ \E t \in Tokens : M[t] = i
        \/ \E h \in Handlers : H[h] = i
        \/ \E r \in Reapers : R[r] = i
       THEN S[i] ELSE NoSession]

Running == fatal = "none"
OthersIdle(th) ==
  /\ \A r \in Reapers \ {th} : rpc[r] = "idle"
  /\ \A h \in Handlers \ {th} : hpc[h] = "idle"

\* history of a pass, kept as long as no other thread took a step
Undisturbed(th, f, none) == [r \in Reapers |-> IF r = th /\ quiet[r] THEN f[r] ELSE none]
History(th) ==
  /\ quiet' = Undisturbed(th, quiet, FALSE)
  /\ passT' = Undisturbed(th, passT, 0)
  /\ passM' = Undisturbed(th, passM, NoMap)
  /\ passS' = Undisturbed(th, passS, NoSessions)

\* ------------------------------------------------------- protocol version
\* a protocol version is a pair (major, minor), ordered major first
NewVersion(major, minor) == <<major, minor>>
NoVersion == NewVersion(0, 0)
Below(a, b) == a[1] < b[1] \/ (a[1] = b[1] /\ a[2] < b[2])
LowerOf(a, b) == IF Below(b, a) THEN b ELSE a
HigherOf(a, b) == IF Below(a, b) THEN b ELSE a

\* variant of the highest supported version, one minor version further
maxProtocolVersion_NextMinor == NewVersion(2, 5)

minProtocolVersion == NewVersion(2, 4)
maxProtocolVersion == NewVersion(2, 4)

\* the version for the client's range [v, vmax], NoVersion when there is none
chooseProtocolVersion(v, vmax) ==
  LET chosen == LowerOf(maxProtocolVersion, vmax)
  IN IF Below(chosen, HigherOf(minProtocolVersion, v)) THEN NoVersion ELSE chosen

NoContact ==
  [pc |-> "idle", v |-> NoVersion, vmax |-> NoVersion, ses |-> NoSession,
   after |-> NoSession, version |-> NoVersion, res |-> "none"]

\* ------------------------------------------------------- handlePermission
\* viper.GetStringSlice: a nil slice, or a slice
NilSlice == [isNil |-> TRUE, items |-> <<>>]
Slice(items) == [isNil |-> FALSE, items |-> items]

\* the default permissions of a type, and the configured ones otherwise
handlePermission(typ, isSet, production, perms) ==
  IF ~isSet /\ (~production \/ typ # "issue-perms") THEN Slice(<<"*">>)
  ELSE IF perms.isNil THEN Slice(<<>>) ELSE perms

NoPermission ==
  [pc |-> "idle", typ |-> "none", isSet |-> FALSE, production |-> FALSE,
   perms |-> NilSlice, result |-> NilSlice]

\* -------------------------------------------------------- newSessionToken
sessionChars ==
  << "a", "b", "c", "d", "e", "f", "g", "h", "i", "j", "k", "l", "m",
     "n", "o", "p", "q", "r", "s", "t", "u", "v", "w", "x", "y", "z",
     "A", "B", "C", "D", "E", "F", "G", "H", "I", "J", "K", "L", "M",
     "N", "O", "P", "Q", "R", "S", "T", "U", "V", "W", "X", "Y", "Z",
     "0", "1", "2", "3", "4", "5", "6", "7", "8", "9" >>
TokenBytes == 20

\* variant of the character choice with the modulus one too large; indexing
\* past the end of sessionChars panics
RandomChar_ModulusOffByOne(r) ==
  LET k == r % (Len(sessionChars) + 1)
  IN IF k < Len(sessionChars) THEN sessionChars[k + 1] ELSE "panic"

\* sessionChars[rand.Int63()%int64(len(sessionChars))]
RandomChar(r) == sessionChars[(r % Len(sessionChars)) + 1]

\* b := make([]byte, 20)
ZeroBytes == [i \in 1..TokenBytes |-> "NUL"]

NoToken == [pc |-> "idle", rnd |-> 0, stride |-> 0, i |-> 0, b |-> <<>>]

\* ------------------------------------------------- HTTPTransport.request
MethodGet == "GET"
MethodPost == "POST"
MethodDelete == "DELETE"

\* json.Unmarshal(body, apierr); apierr.ErrorName
ErrorName(body) == IF body = "apierror" THEN "named" ELSE ""

\* json.Unmarshal(body, result): the body is a JSON object and result can hold one
Unmarshals(body, result) == body \in {"apierror", "object"} /\ result = "struct"

Outcome(err, sent, read) == [err |-> err, sent |-> sent, read |-> read]

\* variant of request without the early return for DELETE
request_DeleteReadsResponse(method, result, object, x) ==
  IF method \notin {MethodPost, MethodGet, MethodDelete} THEN Outcome("panic", FALSE, FALSE)
  ELSE IF method = MethodGet /\ object # "nil" THEN Outcome("panic", FALSE, FALSE)
  ELSE IF object = "unmarshalable" THEN Outcome("serialization", FALSE, FALSE)
  ELSE IF ~x.newRequestOk THEN Outcome("transport", FALSE, FALSE)
  ELSE IF ~x.doOk THEN Outcome("transport", TRUE, FALSE)
  ELSE IF ~x.readOk THEN Outcome("serverResponse", TRUE, TRUE)
  ELSE IF x.status # 200
    THEN IF ErrorName(x.body) = "" THEN Outcome("serverResponse", TRUE, TRUE)
         ELSE Outcome("api", TRUE, TRUE)
  ELSE IF result = "string" THEN Outcome("nil", TRUE, TRUE)
  ELSE IF ~Unmarshals(x.body, result) THEN Outcome("serverResponse", TRUE, TRUE)
  ELSE Outcome("nil", TRUE, TRUE)

\* request(url, method, result, object) against a server whose side of the
\* exchange is x; the error returned, whether the request was sent, and whether
\* the response body was read
request(method, result, object, x) ==
  IF method \notin {MethodPost, MethodGet, MethodDelete} THEN Outcome("panic", FALSE, FALSE)
  ELSE IF method = MethodGet /\ object # "nil" THEN Outcome("panic", FALSE, FALSE)
  ELSE IF object = "unmarshalable" THEN Outcome("serialization", FALSE, FALSE)
  ELSE IF ~x.newRequestOk THEN Outcome("transport", FALSE, FALSE)
  ELSE IF ~x.doOk THEN Outcome("transport", TRUE, FALSE)
  ELSE IF method = MethodDelete THEN Outcome("nil", TRUE, FALSE)
  ELSE IF ~x.readOk THEN Outcome("serverResponse", TRUE, TRUE)
  ELSE IF x.status # 200
    THEN IF ErrorName(x.body) = "" THEN Outcome("serverResponse", TRUE, TRUE)
         ELSE Outcome("api", TRUE, TRUE)
  ELSE IF result = "string" THEN Outcome("nil", TRUE, TRUE)
  ELSE IF ~Unmarshals(x.body, result) THEN Outcome("serverResponse", TRUE, TRUE)
  ELSE Outcome("nil", TRUE, TRUE)

NoExchange ==
  [newRequestOk |-> FALSE, doOk |-> FALSE, status |-> 0, readOk |-> FALSE, body |-> "none"]
NoRequest ==
  [pc |-> "idle", method |-> "none", result |-> "none", object |-> "none",
   x |-> NoExchange, out |-> Outcome("none", FALSE, FALSE)]

\* ------------------------------------------------------------------- Init
InitCommon ==
  /\ now = 0
  /\ m = NoMap
  /\ storeW = "none"
  /\ storeR = {}
  /\ sess = NoSessions
  /\ mu = [i \in SessIds |-> "none"]
  /\ fatal = "none"
  /\ rpc = [r \in Reapers |-> "idle"]
  /\ rlk = [r \in Reapers |-> [w |-> FALSE, r |-> 0]]
  /\ rkeys = [r \in Reapers |-> {}]
  /\ rvisited = [r \in Reapers |-> {}]
  /\ rtoken = [r \in Reapers |-> "none"]
  /\ rses = [r \in Reapers |-> NIL]
  /\ expired = [r \in Reapers |-> <<>>]
  /\ ridx = [r \in Reapers |-> 1]
  /\ hpc = [h \in Handlers |-> "idle"]
  /\ hop = [h \in Handlers |-> "none"]
  /\ htoken = [h \in Handlers |-> "none"]
  /\ hses = [h \in Handlers |-> NIL]
  /\ hres = [h \in Handlers |-> "none"]
  /\ passT = [r \in Reapers |-> 0]
  /\ passM = [r \in Reapers |-> NoMap]
  /\ passS = [r \in Reapers |-> NoSessions]
  /\ quiet = [r \in Reapers |-> FALSE]

\* no call of the functions below is in progress
NoCalls == nego = NoContact /\ perm = NoPermission /\ tokgen = NoToken /\ http = NoRequest

\* one reaper and one request at a time
Init == InitCommon /\ NoCalls /\ live = {"r1", "h1"}

\* ---------------------------------------------------------- deleteExpired
\* The call: the value receiver copies the store, and with it the RWMutex.
DeleteExpiredCall(r) ==
  /\ Running /\ r \in live /\ rpc[r] = "idle"
  /\ rlk' = [rlk EXCEPT ![r] = [w |-> storeW # "none", r |-> Cardinality(storeR)]]
  /\ rpc' = [rpc EXCEPT ![r] = "rlock"]
  /\ quiet' = [q \in Reapers |-> q = r /\ OthersIdle(r)]
  /\ passT' = [q \in Reapers |-> IF q = r /\ OthersIdle(r) THEN now ELSE 0]
  /\ passM' = [q \in Reapers |-> IF q = r /\ OthersIdle(r) THEN m ELSE NoMap]
  /\ passS' = [q \in Reapers |-> IF q = r /\ OthersIdle(r) THEN sess ELSE NoSessions]
  /\ UNCHANGED <<now, storeVars, sessVars, callVars, fatal, rkeys, rvisited, rtoken,
                 rses, expired, ridx, handlerVars>>

\* s.RLock() on the copy; expired := make([]string, 0, len(s.m))
DeleteExpiredRLock(r) ==
  /\ Running /\ rpc[r] = "rlock"
  /\ ~rlk[r].w
  /\ rlk' = [rlk EXCEPT ![r].r = @ + 1]
  /\ rkeys' = [rkeys EXCEPT ![r] = Keys]
  /\ rvisited' = [rvisited EXCEPT ![r] = {}]
  /\ expired' = [expired EXCEPT ![r] = <<>>]
  /\ rpc' = [rpc EXCEPT ![r] = "range"]
  /\ History(r)
  /\ UNCHANGED <<now, storeVars, sessVars, callVars, fatal, rtoken, rses, ridx,
                 handlerVars>>

\* for token, session := range s.m : the next entry. Entries present when
\* the loop started and still present are produced; entries added meanwhile
\* may be produced or skipped.
DeleteExpiredRange(r) ==
  /\ Running /\ rpc[r] = "range"
  /\ \E t \in Keys \ rvisited[r] :
       /\ rtoken' = [rtoken EXCEPT ![r] = t]
       /\ rses' = [rses EXCEPT ![r] = m[t]]
       /\ rvisited' = [rvisited EXCEPT ![r] = @ \cup {t}]
  /\ rpc' = [rpc EXCEPT ![r] = "seslock"]
  /\ History(r)
  /\ UNCHANGED <<now, storeVars, sessVars, callVars, fatal, rlk, rkeys, expired, ridx,
                 handlerVars>>

\* session.Lock()
DeleteExpiredSessionLock(r) ==
  /\ Running /\ rpc[r] = "seslock"
  /\ mu[rses[r]] = "none"
  /\ mu' = [mu EXCEPT ![rses[r]] = r]
  /\ rpc' = [rpc EXCEPT ![r] = "inspect"]
  /\ History(r)
  /\ UNCHANGED <<now, storeVars, sess, callVars, fatal, rlk, rkeys, rvisited,
                 rtoken, rses, expired, ridx, handlerVars>>

\* variants of the loop body: without the Finished test, with markAlive applied
\* to every session the loop visits, and without markAlive
Inspect_NoFinishedTest(s, t) ==
  IF IsExpired(s, t) THEN setStatus(markAlive(s, t), StatusTimeout) ELSE s

Inspect_MarksEverySession(s, t) ==
  IF IsExpired(s, t) /\ ~Finished(s.status)
    THEN setStatus(markAlive(s, t), StatusTimeout)
    ELSE markAlive(s, t)

Inspect_NoRefresh(s, t) ==
  IF IsExpired(s, t) /\ ~Finished(s.status) THEN setStatus(s, StatusTimeout) ELSE s

\* the loop body on one session, up to session.Unlock()
Inspect(s, t) ==
  IF IsExpired(s, t) /\ ~Finished(s.status)
    THEN setStatus(markAlive(s, t), StatusTimeout)
    ELSE s

Records(s, t) == IsExpired(s, t) /\ Finished(s.status)

DeleteExpiredInspect(r) ==
  /\ Running /\ rpc[r] = "inspect"
  /\ rses' = [rses EXCEPT ![r] = NIL]
  /\ rtoken' = [rtoken EXCEPT ![r] = "none"]
  /\ sess' = Collect([sess EXCEPT ![rses[r]] = Inspect(@, now)], m, hses, rses')
  /\ expired' = [expired EXCEPT ![r] =
                   IF Records(sess[rses[r]], now) THEN Append(@, rtoken[r]) ELSE @]
  /\ mu' = [mu EXCEPT ![rses[r]] = "none"]
  /\ rpc' = [rpc EXCEPT ![r] = "range"]
  /\ History(r)
  /\ UNCHANGED <<now, storeVars, callVars, fatal, rlk, rkeys, rvisited, ridx,
                 handlerVars>>

\* end of the range loop; s.RUnlock()
DeleteExpiredRUnlock(r) ==
  /\ Running /\ rpc[r] = "range"
  /\ (rkeys[r] \cap Keys) \subseteq rvisited[r]
  /\ rlk' = [rlk EXCEPT ![r].r = @ - 1]
  /\ rkeys' = [rkeys EXCEPT ![r] = {}]
  /\ rvisited' = [rvisited EXCEPT ![r] = {}]
  /\ rpc' = [rpc EXCEPT ![r] = "wlock"]
  /\ History(r)
  /\ UNCHANGED <<now, storeVars, sessVars, callVars, fatal, rtoken,
                 rses, expired, ridx, handlerVars>>

\* s.Lock() on the copy
DeleteExpiredLock(r) ==
  /\ Running /\ rpc[r] = "wlock"
  /\ ~rlk[r].w /\ rlk[r].r = 0
  /\ rlk' = [rlk EXCEPT ![r].w = TRUE]
  /\ ridx' = [ridx EXCEPT ![r] = 1]
  /\ rpc' = [rpc EXCEPT ![r] = "sweep"]
  /\ History(r)
  /\ UNCHANGED <<now, storeVars, sessVars, callVars, fatal, rkeys, rvisited, rtoken,
                 rses, expired, handlerVars>>

\* session := s.m[token]; if session.evtSource != nil { session.evtSource.Close() }
\* A missing entry is a nil dereference; closing a closed source panics.
CloseEvt(s) == IF s.evtSource # "nil" THEN [s EXCEPT !.evtSource = "closed"] ELSE s

DeleteExpiredClose(r) ==
  /\ Running /\ rpc[r] = "sweep"
  /\ ridx[r] <= Len(expired[r])
  /\ LET t == expired[r][ridx[r]]
         i == m[t]
     IN /\ rtoken' = [rtoken EXCEPT ![r] = t]
        /\ rses' = [rses EXCEPT ![r] = i]
        /\ IF i = NIL
             THEN /\ fatal' = "nil" /\ UNCHANGED <<sess, rpc>>
             ELSE IF sess[i].evtSource = "closed"
               THEN /\ fatal' = "close" /\ UNCHANGED <<sess, rpc>>
               ELSE /\ sess' = [sess EXCEPT ![i] = CloseEvt(@)]
                    /\ rpc' = [rpc EXCEPT ![r] = "delete"]
                    /\ UNCHANGED fatal
  /\ History(r)
  /\ UNCHANGED <<now, storeVars, mu, callVars, rlk, rkeys, rvisited, expired,
                 ridx, handlerVars>>

\* delete(s.m, token)
delete(mm, token) == [mm EXCEPT ![token] = NIL]

DeleteExpiredDelete(r) ==
  /\ Running /\ rpc[r] = "delete"
  /\ m' = delete(m, rtoken[r])
  /\ rses' = [rses EXCEPT ![r] = NIL]
  /\ rtoken' = [rtoken EXCEPT ![r] = "none"]
  /\ sess' = Collect(sess, m', hses, rses')
  /\ ridx' = [ridx EXCEPT ![r] = @ + 1]
  /\ rpc' = [rpc EXCEPT ![r] = "sweep"]
  /\ History(r)
  /\ UNCHANGED <<now, storeW, storeR, mu, callVars, fatal, rlk, rkeys, rvisited,
                 expired, handlerVars>>

\* s.Unlock() on the copy
DeleteExpiredUnlock(r) ==
  /\ Running /\ rpc[r] = "sweep"
  /\ ridx[r] > Len(expired[r])
  /\ rlk' = [rlk EXCEPT ![r].w = FALSE]
  /\ rpc' = [rpc EXCEPT ![r] = "done"]
  /\ History(r)
  /\ UNCHANGED <<now, storeVars, sessVars, callVars, fatal, rkeys, rvisited, rtoken,
                 rses, expired, ridx, handlerVars>>

\* return
DeleteExpiredReturn(r) ==
  /\ Running /\ rpc[r] = "done"
  /\ rpc' = [rpc EXCEPT ![r] = "idle"]
  /\ rlk' = [rlk EXCEPT ![r] = [w |-> FALSE, r |-> 0]]
  /\ expired' = [expired EXCEPT ![r] = <<>>]
  /\ ridx' = [ridx EXCEPT ![r] = 1]
  /\ quiet' = [q \in Reapers |-> FALSE]
  /\ passT' = [q \in Reapers |-> 0]
  /\ passM' = [q \in Reapers |-> NoMap]
  /\ passS' = [q \in Reapers |-> NoSessions]
  /\ UNCHANGED <<now, storeVars, sessVars, callVars, fatal, rkeys, rvisited, rtoken,
                 rses, handlerVars>>

ReaperStep(r) ==
  \/ DeleteExpiredCall(r)
  \/ DeleteExpiredRLock(r)
  \/ DeleteExpiredRange(r)
  \/ DeleteExpiredSessionLock(r)
  \/ DeleteExpiredInspect(r)
  \/ DeleteExpiredRUnlock(r)
  \/ DeleteExpiredLock(r)
  \/ DeleteExpiredClose(r)
  \/ DeleteExpiredDelete(r)
  \/ DeleteExpiredUnlock(r)
  \/ DeleteExpiredReturn(r)

\* -------------------------------------------------------------- newSession
ClientOps == {"get", "info", "submit", "cancel"}
Ops == ClientOps \cup {"subscribe"}
Disturbed ==
  /\ quiet' = [r \in Reapers |-> FALSE]
  /\ passT' = [r \in Reapers |-> 0]
  /\ passM' = [r \in Reapers |-> NoMap]
  /\ passS' = [r \in Reapers |-> NoSessions]

\* a requestor's request: the base parameters it submitted
Requests(timeouts, nonces, contexts) ==
  [clientTimeout : timeouts, nonce : nonces, context : contexts]

\* the inputs of newSession drawn in a run: the tokens newSessionToken returns,
\* the actions and requests submitted, the nonces gabi.RandomBigInt returns
Inputs(tokens, actions, requests, nonces) ==
  [tokens |-> tokens, actions |-> actions, requests |-> requests, nonces |-> nonces]

one == 1

\* variant of the session under construction that keeps the submitted nonce and context
NewSessionObject_KeepsSubmitted(token, action, rrequest, nonce, t) ==
  [token |-> token, action |-> action, status |-> StatusInitialized,
   prevStatus |-> StatusInitialized, lastActive |-> t,
   clientTimeout |-> rrequest.clientTimeout, nonce |-> rrequest.nonce,
   context |-> rrequest.context, evtSource |-> "nil", resultToken |-> token,
   resultType |-> action, resultStatus |-> StatusInitialized]

\* ses := &session{...}; ses.request.SetNonce(nonce); ses.request.SetContext(one)
NewSessionObject(token, action, rrequest, nonce, t) ==
  [token |-> token, action |-> action, status |-> StatusInitialized,
   prevStatus |-> StatusInitialized, lastActive |-> t,
   clientTimeout |-> rrequest.clientTimeout, nonce |-> nonce, context |-> one,
   evtSource |-> "nil", resultToken |-> token, resultType |-> action,
   resultStatus |-> StatusInitialized]

FreeIds == {i \in SessIds : ~Allocated(i)}
NewId == CHOOSE i \in FreeIds : \A j \in FreeIds : i <= j

\* token := newSessionToken(); ses := &session{...}; the nonce and the context
NewSession(h, in) ==
  /\ Running /\ h \in live /\ hpc[h] = "idle"
  /\ FreeIds # {}
  /\ \E token \in in.tokens, action \in in.actions, rrequest \in in.requests,
        nonce \in in.nonces :
       /\ sess' = [sess EXCEPT ![NewId] =
                     NewSessionObject(token, action, rrequest, nonce, now)]
       /\ htoken' = [htoken EXCEPT ![h] = token]
  /\ hses' = [hses EXCEPT ![h] = NewId]
  /\ hop' = [hop EXCEPT ![h] = "new"]
  /\ hpc' = [hpc EXCEPT ![h] = "addlock"]
  /\ Disturbed
  /\ UNCHANGED <<now, storeVars, mu, callVars, fatal, reaperVars, hres>>

\* add: s.Lock()
AddLock(h) ==
  /\ Running /\ hpc[h] = "addlock"
  /\ storeW = "none" /\ storeR = {}
  /\ storeW' = h
  /\ hpc' = [hpc EXCEPT ![h] = "add"]
  /\ Disturbed
  /\ UNCHANGED <<now, m, storeR, sessVars, callVars, fatal, reaperVars, hop, htoken,
                 hses, hres>>

\* add: s.m[token] = session; s.Unlock(); newSession returns the session
add(mm, token, session) == [mm EXCEPT ![token] = session]

Add(h) ==
  /\ Running /\ hpc[h] = "add"
  /\ m' = add(m, htoken[h], hses[h])
  /\ sess' = Collect(sess, m', hses, rses)
  /\ storeW' = "none"
  /\ hres' = [hres EXCEPT ![h] = "ok"]
  /\ hpc' = [hpc EXCEPT ![h] = "ret"]
  /\ Disturbed
  /\ UNCHANGED <<now, storeR, mu, callVars, fatal, reaperVars, hop, htoken, hses>>

\* ---------------------------------------------------------------- handlers
\* a handler is invoked with a token; get: s.RLock()
HandlerBegin(h, ops, tokens) ==
  /\ Running /\ h \in live /\ hpc[h] = "idle"
  /\ storeW = "none"
  /\ \E op \in ops, token \in tokens :
       /\ hop' = [hop EXCEPT ![h] = op]
       /\ htoken' = [htoken EXCEPT ![h] = token]
  /\ storeR' = storeR \cup {h}
  /\ hpc' = [hpc EXCEPT ![h] = "get"]
  /\ Disturbed
  /\ UNCHANGED <<now, m, storeW, sessVars, callVars, fatal, reaperVars, hses, hres>>

\* variant of get that looks up nothing
get_AlwaysAbsent(mm, token) == NIL

\* get: return s.m[token]; s.RUnlock()
get(mm, token) == mm[token]

HandlerGet(h) ==
  /\ Running /\ hpc[h] = "get"
  /\ hses' = [hses EXCEPT ![h] = get(m, htoken[h])]
  /\ storeR' = storeR \ {h}
  /\ IF get(m, htoken[h]) = NIL
       THEN /\ hres' = [hres EXCEPT ![h] = "unknownSession"]
            /\ hpc' = [hpc EXCEPT ![h] = "ret"]
       ELSE IF hop[h] = "get"
         THEN /\ hres' = [hres EXCEPT ![h] = "ok"]
              /\ hpc' = [hpc EXCEPT ![h] = "ret"]
         ELSE /\ hpc' = [hpc EXCEPT ![h] = "lock"]
              /\ UNCHANGED hres
  /\ Disturbed
  /\ UNCHANGED <<now, m, storeW, sessVars, callVars, fatal, reaperVars, hop, htoken>>

\* variant of HandlerLock that does not wait for the holder of the mutex
HandlerLock_NoWait(h) ==
  /\ Running /\ hpc[h] = "lock"
  /\ mu' = [mu EXCEPT ![hses[h]] = h]
  /\ hpc' = [hpc EXCEPT ![h] = "body"]
  /\ Disturbed
  /\ UNCHANGED <<now, storeVars, sess, callVars, fatal, reaperVars, hop, htoken,
                 hses, hres>>

\* session.Lock()
HandlerLock(h) ==
  /\ Running /\ hpc[h] = "lock"
  /\ mu[hses[h]] = "none"
  /\ mu' = [mu EXCEPT ![hses[h]] = h]
  /\ hpc' = [hpc EXCEPT ![h] = "body"]
  /\ Disturbed
  /\ UNCHANGED <<now, storeVars, sess, callVars, fatal, reaperVars, hop, htoken,
                 hses, hres>>

\* the handlers proper: validate the pre-state, markAlive, work
GetSessionInfo(s, ok, t) ==
  IF s.status # StatusInitialized THEN s
  ELSE setStatus(markAlive(s, t), IF ok THEN StatusConnected ELSE StatusCancelled)

SubmitResponse(s, t) ==
  IF s.status # StatusConnected THEN s
  ELSE setStatus(markAlive(s, t), StatusCommunicating)

Verify(s, ok) == setStatus(s, IF ok THEN StatusDone ELSE StatusCancelled)

CancelSession(s, t) ==
  IF Finished(s.status) THEN s ELSE setStatus(markAlive(s, t), StatusCancelled)

SubscribeStatus(s, t) ==
  IF Finished(s.status) THEN s ELSE [markAlive(s, t) EXCEPT !.evtSource = "open"]

HandlerEffect(op, s, ok, t) ==
  CASE op = "info" -> GetSessionInfo(s, ok, t)
    [] op = "submit" -> SubmitResponse(s, t)
    [] op = "cancel" -> CancelSession(s, t)
    [] op = "subscribe" -> SubscribeStatus(s, t)

HandlerResult(op, s, ok) ==
  CASE op = "info" ->
         IF s.status # StatusInitialized THEN "unexpectedRequest"
         ELSE IF ok THEN "ok" ELSE "protocolVersionNotSupported"
    [] op = "submit" -> IF s.status # StatusConnected THEN "unexpectedRequest" ELSE "none"
    [] op = "cancel" -> "ok"
    [] op = "subscribe" -> "ok"

HandlerBody(h) ==
  /\ Running /\ hpc[h] = "body"
  /\ \E ok \in IF hop[h] = "info" THEN BOOLEAN ELSE {TRUE} :
       LET s == sess[hses[h]]
           r == HandlerResult(hop[h], s, ok)
       IN /\ sess' = [sess EXCEPT ![hses[h]] = HandlerEffect(hop[h], s, ok, now)]
          /\ hres' = [hres EXCEPT ![h] = r]
          /\ IF r = "none"
               THEN /\ hpc' = [hpc EXCEPT ![h] = "verify"]
                    /\ UNCHANGED mu
               ELSE /\ hpc' = [hpc EXCEPT ![h] = "ret"]
                    /\ mu' = [mu EXCEPT ![hses[h]] = "none"]
  /\ Disturbed
  /\ UNCHANGED <<now, storeVars, callVars, fatal, reaperVars, hop, htoken, hses>>

\* SubmitResponse, second half: the outcome of the verification
HandlerVerify(h) ==
  /\ Running /\ hpc[h] = "verify"
  /\ \E ok \in BOOLEAN :
       /\ sess' = [sess EXCEPT ![hses[h]] = Verify(@, ok)]
       /\ hres' = [hres EXCEPT ![h] = IF ok THEN "ok" ELSE "rejected"]
  /\ mu' = [mu EXCEPT ![hses[h]] = "none"]
  /\ hpc' = [hpc EXCEPT ![h] = "ret"]
  /\ Disturbed
  /\ UNCHANGED <<now, storeVars, callVars, fatal, reaperVars, hop, htoken, hses>>

\* the request is answered
HandlerReturn(h) ==
  /\ Running /\ hpc[h] = "ret"
  /\ hpc' = [hpc EXCEPT ![h] = "idle"]
  /\ hop' = [hop EXCEPT ![h] = "none"]
  /\ htoken' = [htoken EXCEPT ![h] = "none"]
  /\ hses' = [hses EXCEPT ![h] = NIL]
  /\ hres' = [hres EXCEPT ![h] = "none"]
  /\ sess' = Collect(sess, m, hses', rses)
  /\ Disturbed
  /\ UNCHANGED <<now, storeVars, mu, callVars, fatal, reaperVars>>

HandlerStep(h, ops, in) ==
  \/ NewSession(h, in)
  \/ AddLock(h)
  \/ Add(h)
  \/ HandlerBegin(h, ops, in.tokens)
  \/ HandlerGet(h)
  \/ HandlerLock(h)
  \/ HandlerBody(h)
  \/ HandlerVerify(h)
  \/ HandlerReturn(h)

\* ------------------------------------------------------------ environment
Tick(steps) ==
  /\ Running
  /\ \E d \in steps : now + d <= MaxTime /\ now' = now + d
  /\ Disturbed
  /\ UNCHANGED <<storeVars, sessVars, callVars, fatal, reaperVars, handlerVars>>

\* sections of code that read, iterate or write the map
MapReader(th) ==
  \/ th \in Handlers /\ hpc[th] = "get"
  \/ th \in Reapers /\ rpc[th] \in {"range", "seslock", "inspect"}
MapWriter(th) ==
  \/ th \in Handlers /\ hpc[th] = "add"
  \/ th \in Reapers /\ rpc[th] \in {"sweep", "delete"}
MapRace ==
  \E a \in Threads, b \in Threads :
    a # b /\ MapWriter(a) /\ (MapReader(b) \/ MapWriter(b))

\* the runtime may detect unsynchronised map access and abort the process
RaceFatal ==
  /\ Running /\ MapRace
  /\ fatal' = "race"
  /\ Disturbed
  /\ UNCHANGED <<now, storeVars, sessVars, callVars, reaperVars, handlerVars>>

\* the inputs of the interleaved runs, and of the runs one operation at a time
OneInput == Inputs(OneToken, {"disclosing"}, Requests({0}, {7}, {5}), {11})
SeqInput == Inputs(Tokens, {"disclosing"}, Requests(ClientTimeouts, {7}, {5}), {11})

Next ==
  \/ \E r \in Reapers : ReaperStep(r)
  \/ \E h \in Handlers : HandlerStep(h, Ops, OneInput)
  \/ Tick(OneTick)
  \/ RaceFatal

Spec == Init /\ [][Next]_vars

\* operations one at a time: a thread takes a step only while the others are idle
AllIdle == \A th \in Threads : OthersIdle(th) /\ (th \in Reapers => rpc[th] = "idle")
                                               /\ (th \in Handlers => hpc[th] = "idle")
SeqNext ==
  \/ \E r \in Reapers : OthersIdle(r) /\ ReaperStep(r)
  \/ \E h \in Handlers : OthersIdle(h) /\ HandlerStep(h, ClientOps, SeqInput)
  \/ AllIdle /\ Tick(TickSteps)

SeqSpec == Init /\ [][SeqNext]_vars

\* ---------------------------------------------------------------- creation
\* sessions of every action, with the nonces and contexts a requestor may submit
\* and the nonces the server generates; the client only looks the session up
Actions == {"disclosing", "signing", "issuing"}
SubmittedNonces == {7, 8}
SubmittedContexts == {1, 5}
GeneratedNonces == {11, 12}
CreateInput ==
  Inputs(Tokens, Actions, Requests({0}, SubmittedNonces, SubmittedContexts),
         GeneratedNonces)

CreateHandlerStep(h) ==
  \/ NewSession(h, CreateInput)
  \/ AddLock(h)
  \/ Add(h)
  \/ HandlerBegin(h, {"get"}, Tokens)
  \/ HandlerGet(h)
  \/ HandlerReturn(h)

CreateNext ==
  \/ \E r \in Reapers : OthersIdle(r) /\ ReaperStep(r)
  \/ \E h \in Handlers : OthersIdle(h) /\ CreateHandlerStep(h)
  \/ AllIdle /\ Tick(OneTick)

CreateSpec == Init /\ [][CreateNext]_vars

\* --------------------------------------------------- two requests at once
\* two handler threads, no reaper, no passage of time
TwoInit == InitCommon /\ NoCalls /\ live = {"h1", "h2"}

TwoNext == \E h \in Handlers : HandlerStep(h, {"info", "submit"}, OneInput)

TwoSpec == TwoInit /\ [][TwoNext]_vars

\* --------------------------------------------------------- function calls
\* the specifications below apply one function to inputs drawn from bounded
\* sets; no thread of the session store runs
StoreIdle ==
  UNCHANGED <<now, storeVars, sessVars, live, fatal, reaperVars, handlerVars, histVars>>

\* first client contact: GetSessionInfo with the client's version range
ClientVersions ==
  {NewVersion(1, 9), NewVersion(2, 3), NewVersion(2, 4), NewVersion(2, 5),
   NewVersion(3, 0)}
Statuses == NonTerminal \cup Terminal
ContactSessions ==
  {[NewSessionObject("tA", "disclosing", r, 11, 0) EXCEPT !.status = st] :
     r \in Requests({0}, {7}, {5}), st \in Statuses}

VersionInit ==
  /\ InitCommon /\ live = {}
  /\ perm = NoPermission /\ tokgen = NoToken /\ http = NoRequest
  /\ nego \in {[NoContact EXCEPT !.pc = "called", !.v = v, !.vmax = vmax, !.ses = s] :
                 v \in ClientVersions, vmax \in ClientVersions, s \in ContactSessions}

ClientContact ==
  /\ nego.pc = "called"
  /\ LET chosen == chooseProtocolVersion(nego.v, nego.vmax)
         ok == chosen # NoVersion
     IN nego' = [nego EXCEPT
                   !.pc = "done",
                   !.after = GetSessionInfo(nego.ses, ok, now),
                   !.res = HandlerResult("info", nego.ses, ok),
                   !.version = IF nego.ses.status = StatusInitialized /\ ok
                                 THEN chosen ELSE NoVersion]
  /\ UNCHANGED <<perm, tokgen, http>>
  /\ StoreIdle

VersionSpec == VersionInit /\ [][ClientContact]_vars

\* handlePermission for every type, with the key set or not, in either mode
PermissionTypes == {"disclose-perms", "sign-perms", "issue-perms"}
ConfiguredPerms ==
  {NilSlice, Slice(<<>>), Slice(<<"*">>), Slice(<<"irma-demo.*">>), Slice(<<"pbdf.*">>),
   Slice(<<"irma-demo.*", "pbdf.*">>), Slice(<<"pbdf.*", "irma-demo.*">>),
   Slice(<<"irma-demo.MijnOverheid.ageLimits.over18">>)}
\* the flags' default is nil: an unset key yields no entries
UnsetPerms == {NilSlice, Slice(<<>>)}

PermInit ==
  /\ InitCommon /\ live = {}
  /\ nego = NoContact /\ tokgen = NoToken /\ http = NoRequest
  /\ perm \in {[NoPermission EXCEPT !.pc = "called", !.typ = typ, !.isSet = isSet,
                                    !.production = production, !.perms = perms] :
                 typ \in PermissionTypes, isSet \in BOOLEAN, production \in BOOLEAN,
                 perms \in ConfiguredPerms}
  /\ ~perm.isSet => perm.perms \in UnsetPerms

HandlePermission ==
  /\ perm.pc = "called"
  /\ perm' = [perm EXCEPT
                !.pc = "done",
                !.result = handlePermission(perm.typ, perm.isSet, perm.production,
                                            perm.perms)]
  /\ UNCHANGED <<nego, tokgen, http>>
  /\ StoreIdle

PermSpec == PermInit /\ [][HandlePermission]_vars

\* newSessionToken, byte by byte. The values rand.Int63 returns are
\* non-negative; a run draws them as the progression start, start + stride, ...
RandStarts == {0, 25, 26, 51, 52, 61, 62, 123, 2147480000}
RandStrides == {0, 1, 7, 61, 62, 63}

TokenInit ==
  /\ InitCommon /\ live = {}
  /\ nego = NoContact /\ perm = NoPermission /\ http = NoRequest
  /\ tokgen \in {[NoToken EXCEPT !.pc = "called", !.rnd = start, !.stride = stride] :
                   start \in RandStarts, stride \in RandStrides}

\* b := make([]byte, 20)
NewSessionTokenMake ==
  /\ tokgen.pc = "called"
  /\ tokgen' = [tokgen EXCEPT !.pc = "loop", !.b = ZeroBytes, !.i = 0]
  /\ UNCHANGED <<nego, perm, http>>
  /\ StoreIdle

\* for i := range b { b[i] = sessionChars[rand.Int63()%int64(len(sessionChars))] }
NewSessionTokenByte ==
  /\ tokgen.pc = "loop" /\ tokgen.i < Len(tokgen.b)
  /\ tokgen' = [tokgen EXCEPT !.b[tokgen.i + 1] = RandomChar(tokgen.rnd),
                              !.rnd = @ + tokgen.stride,
                              !.i = @ + 1]
  /\ UNCHANGED <<nego, perm, http>>
  /\ StoreIdle

\* return string(b)
NewSessionTokenReturn ==
  /\ tokgen.pc = "loop" /\ tokgen.i = Len(tokgen.b)
  /\ tokgen' = [tokgen EXCEPT !.pc = "done"]
  /\ UNCHANGED <<nego, perm, http>>
  /\ StoreIdle

TokenNext == NewSessionTokenMake \/ NewSessionTokenByte \/ NewSessionTokenReturn

TokenSpec == TokenInit /\ [][TokenNext]_vars

\* HTTPTransport.request for every method, object, result and server behaviour
Methods == {MethodGet, MethodPost, MethodDelete, "PUT"}
Objects == {"nil", "string", "struct", "unmarshalable"}
Results == {"nil", "string", "struct"}
Exchanges ==
  [newRequestOk : BOOLEAN, doOk : BOOLEAN, status : {200, 204, 400, 500},
   readOk : BOOLEAN, body : {"apierror", "object", "array", "garbage"}]

RequestInit ==
  /\ InitCommon /\ live = {}
  /\ nego = NoContact /\ perm = NoPermission /\ tokgen = NoToken
  /\ http \in {[NoRequest EXCEPT !.pc = "called", !.method = method, !.result = result,
                                 !.object = object, !.x = x] :
                 method \in Methods, result \in Results, object \in Objects,
                 x \in Exchanges}

Request ==
  /\ http.pc = "called"
  /\ http' = [http EXCEPT
                !.pc = "done",
                !.out = request(http.method, http.result, http.object, http.x)]
  /\ UNCHANGED <<nego, perm, tokgen>>
  /\ StoreIdle

RequestSpec == RequestInit /\ [][Request]_vars

\* ---------------------------------------------------------------- liveness
\* Time without end: up to MaxTime the clock advances; from there on it is
\* rebased, each session keeping its age up to the point where it is expired
\* whatever its timeout.
Older(s, d, t) ==
  IF s.status = "none" THEN s
  ELSE [s EXCEPT !.lastActive =
          IF @ - d < t - (maxSessionLifetime + 1) THEN t - (maxSessionLifetime + 1)
          ELSE @ - d]

TickOn(steps) ==
  /\ Running
  /\ \E d \in steps :
       IF now + d <= MaxTime
         THEN now' = now + d /\ UNCHANGED sess
         ELSE now' = now /\ sess' = [i \in SessIds |-> Older(sess[i], d, now)]
  /\ Disturbed
  /\ UNCHANGED <<storeVars, mu, callVars, fatal, reaperVars, handlerVars>>

\* sessions whose client never connects: requestors create them, sessions are
\* looked up, and nothing else touches them
LiveHandlerStep(h) ==
  \/ NewSession(h, OneInput)
  \/ AddLock(h)
  \/ Add(h)
  \/ HandlerBegin(h, {"get"}, OneToken)
  \/ HandlerGet(h)
  \/ HandlerReturn(h)

\* a request under way runs to its end
HandlerContinues ==
  \E h \in Handlers : AddLock(h) \/ Add(h) \/ HandlerGet(h) \/ HandlerReturn(h)

LiveNext ==
  \/ \E r \in Reapers : ReaperStep(r)
  \/ \E h \in Handlers : LiveHandlerStep(h)
  \/ TickOn(OneTick)
  \/ RaceFatal

\* the reaper keeps running, time keeps advancing, requests complete
LiveSpec ==
  /\ Init /\ [][LiveNext]_vars
  /\ WF_vars(\E r \in Reapers : ReaperStep(r))
  /\ WF_vars(TickOn(OneTick))
  /\ WF_vars(HandlerContinues)

\* ------------------------------------------------------ two sweeps at once
\* two calls of deleteExpired under way together, with a requestor creating
\* sessions and clients looking them up
SweepsInit == InitCommon /\ NoCalls /\ live = {"r1", "r2", "h1"}

SweepsNext ==
  \/ \E r \in Reapers : ReaperStep(r)
  \/ \E h \in Handlers : LiveHandlerStep(h)
  \/ Tick(OneTick)
  \/ RaceFatal

SweepsSpec == SweepsInit /\ [][SweepsNext]_vars

\* =================================================================== claims
FiveMinutes == 5 * 60
Rank(st) ==
  CASE st = StatusInitialized -> 0
    [] st = StatusConnected -> 1
    [] st = StatusCommunicating -> 2
    [] OTHER -> 3

\* a step of deleteExpired, and the step that ends the loop body on a session
ReaperMoved == \E r \in Reapers : rpc'[r] # rpc[r]
Inspected(r) == rpc[r] = "inspect" /\ rpc'[r] = "range"
Exists(i) == sess[i].status # "none" /\ sess'[i].status # "none"

\* C1: post-condition of one undisturbed pass started at time t: a session that
\* was non-terminal with lastActive + effectiveTimeout < t is in the store with
\* status TIMEOUT; one that was terminal with lastActive + effectiveTimeout < t is
\* absent; one with lastActive + effectiveTimeout >= t is in the store with its
\* status unchanged. effectiveTimeout is clientTimeout seconds when the status is
\* INITIALIZED and clientTimeout # 0, and five minutes otherwise.
C1_EffectiveTimeout(s) ==
  IF s.status = StatusInitialized /\ s.clientTimeout # 0
    THEN s.clientTimeout ELSE FiveMinutes
C1_Due(s, t) == s.lastActive + C1_EffectiveTimeout(s) < t
C1_PassPostCondition ==
  \A r \in Reapers :
    (rpc[r] = "done" /\ quiet[r]) =>
      \A tok \in Tokens :
        passM[r][tok] # NIL =>
          LET i == passM[r][tok]
              s0 == passS[r][i]
          IN /\ (s0.status \in NonTerminal /\ C1_Due(s0, passT[r])) =>
                  (m[tok] = i /\ sess[i].status = StatusTimeout)
             /\ (s0.status \in Terminal /\ C1_Due(s0, passT[r])) => m[tok] = NIL
             /\ ~C1_Due(s0, passT[r]) => (m[tok] = i /\ sess[i].status = s0.status)

C1_Witness ==
  \E r \in Reapers :
    /\ rpc[r] = "done" /\ quiet[r]
    /\ \E t1 \in Tokens, t2 \in Tokens :
         /\ passM[r][t1] # NIL /\ passM[r][t2] # NIL
         /\ passS[r][passM[r][t1]].status \in NonTerminal
         /\ m[t1] # NIL /\ sess[m[t1]].status = StatusTimeout
         /\ passS[r][passM[r][t2]].status \in Terminal
         /\ m[t2] = NIL

\* C2: a session leaves the store only in the reaper's delete step, and only when
\* its status is terminal and lastActive + maxSessionLifetime < now; no session
\* with status INITIALIZED, CONNECTED or COMMUNICATING ever leaves the store.
C2_RemovedOnlyByReaperWhenTerminal ==
  [][\A i \in SessIds :
       ((\E t \in Tokens : m[t] = i) /\ ~(\E t \in Tokens : m'[t] = i)) =>
         /\ \E r \in Reapers : rpc[r] = "delete" /\ rpc'[r] = "sweep"
         /\ sess[i].status \in Terminal
         /\ sess[i].lastActive + FiveMinutes < now]_vars

\* C3: the only status change a reaper step makes is from a non-terminal status
\* to TIMEOUT; a terminal status never changes; no step moves a status backwards
\* in the order INITIALIZED, CONNECTED, COMMUNICATING, terminal.
C3_StatusOnlyAdvances ==
  [][\A i \in SessIds :
       (Exists(i) /\ sess'[i].status # sess[i].status) =>
         /\ sess[i].status \in NonTerminal
         /\ Rank(sess'[i].status) > Rank(sess[i].status)
         /\ ReaperMoved => sess'[i].status = StatusTimeout]_vars

C3_Witness ==
  \E r \in Reapers :
    /\ rpc[r] = "inspect"
    /\ sess[rses[r]].status = StatusTimeout
    /\ sess[rses[r]].prevStatus = StatusConnected

\* C4: no section that writes the token map (add, the second loop of the sweep)
\* overlaps a section that reads or iterates it (get, the first loop of the
\* sweep) or another writing section.
C4_NoMapRace == ~MapRace

\* C5: add never replaces a session that is already registered: a token that is
\* mapped keeps its session until the token is removed.
C5_AddNeverReplaces ==
  [][\A t \in Tokens : (m[t] # NIL /\ m'[t] # NIL) => m'[t] = m[t]]_vars

\* C6 (as stated): the reaper moves an INITIALIZED session to TIMEOUT in a pass at
\* time t if and only if lastActive + 5 minutes < t, whatever clientTimeout is.
C6_InitializedBoundedByLifetime ==
  [][\A r \in Reapers :
       (Inspected(r) /\ Exists(rses[r]) /\ sess[rses[r]].status = StatusInitialized) =>
         (sess'[rses[r]].status = StatusTimeout
            <=> sess[rses[r]].lastActive + FiveMinutes < now)]_vars

\* C6 (amended): the reaper moves an INITIALIZED session to TIMEOUT in a pass at
\* time t if and only if lastActive + clientTimeout seconds < t when
\* clientTimeout # 0, and lastActive + 5 minutes < t when clientTimeout = 0.
C6_InitializedBoundedByClientTimeout ==
  [][\A r \in Reapers :
       (Inspected(r) /\ Exists(rses[r]) /\ sess[rses[r]].status = StatusInitialized) =>
         (sess'[rses[r]].status = StatusTimeout
            <=> sess[rses[r]].lastActive
                  + (IF sess[rses[r]].clientTimeout # 0
                       THEN sess[rses[r]].clientTimeout ELSE FiveMinutes) < now)]_vars

C6_Witness ==
  \E i \in SessIds :
    /\ sess[i].status = StatusTimeout /\ sess[i].prevStatus = StatusInitialized
    /\ sess[i].clientTimeout = 200 /\ sess[i].lastActive = 300

\* C7 (as stated): the reaper moves a CONNECTED or COMMUNICATING session to
\* TIMEOUT in a pass at time t if and only if lastActive + clientTimeout seconds
\* < t when clientTimeout # 0, and lastActive + 5 minutes < t when it is 0.
C7_ConnectedBoundedByClientTimeout ==
  [][\A r \in Reapers :
       (/\ Inspected(r) /\ Exists(rses[r])
        /\ sess[rses[r]].status \in {StatusConnected, StatusCommunicating}) =>
         (sess'[rses[r]].status = StatusTimeout
            <=> sess[rses[r]].lastActive
                  + (IF sess[rses[r]].clientTimeout # 0
                       THEN sess[rses[r]].clientTimeout ELSE FiveMinutes) < now)]_vars

\* C7 (amended): the reaper moves a CONNECTED or COMMUNICATING session to TIMEOUT
\* in a pass at time t if and only if lastActive + 5 minutes < t, whatever
\* clientTimeout is.
C7_ConnectedBoundedByLifetime ==
  [][\A r \in Reapers :
       (/\ Inspected(r) /\ Exists(rses[r])
        /\ sess[rses[r]].status \in {StatusConnected, StatusCommunicating}) =>
         (sess'[rses[r]].status = StatusTimeout
            <=> sess[rses[r]].lastActive + FiveMinutes < now)]_vars

C7_Witness ==
  \E r \in Reapers :
    /\ rpc[r] = "done"
    /\ \E i \in SessIds :
         /\ InStore(i) /\ sess[i].status = StatusConnected
         /\ sess[i].clientTimeout = 200
         /\ sess[i].lastActive + 200 < passT[r]
         /\ sess[i].lastActive + FiveMinutes >= passT[r]

\* C8: get changes neither the map nor any session, and returns the session
\* registered under the token, NIL when there is none.
C8_GetIsPureRead ==
  [][\A h \in Handlers :
       /\ (hpc[h] = "idle" /\ hpc'[h] = "get") => (m' = m /\ sess' = sess)
       /\ (hpc[h] = "get" /\ hpc'[h] # "get") =>
            (m' = m /\ sess' = sess /\ hses'[h] = m[htoken[h]])]_vars

C8_Witness ==
  \E h \in Handlers :
    /\ hpc[h] = "ret" /\ hop[h] = "get" /\ hres[h] = "unknownSession"
    /\ hses[h] = NIL /\ m[htoken[h]] = NIL
    /\ now > FiveMinutes

\* C9 (as stated): no step of deleteExpired changes the lastActive of a session.
C9_ReaperKeepsLastActive ==
  [][ReaperMoved =>
       \A i \in SessIds : Exists(i) => sess'[i].lastActive = sess[i].lastActive]_vars

\* C9 (amended): a step of deleteExpired changes the lastActive of a session only
\* when it moves that session from a non-terminal status to TIMEOUT, and then it
\* sets lastActive to the current time.
C9_ReaperRefreshesOnlyTimedOut ==
  [][ReaperMoved =>
       \A i \in SessIds :
         Exists(i) =>
           \/ sess'[i].lastActive = sess[i].lastActive
           \/ /\ sess[i].status \in NonTerminal
              /\ sess'[i].status = StatusTimeout
              /\ sess'[i].lastActive = now]_vars

C9_Witness ==
  \E i \in SessIds :
    /\ sess[i].status = StatusTimeout /\ sess[i].prevStatus = StatusInitialized
    /\ sess[i].lastActive = now /\ now > FiveMinutes
    /\ \E r \in Reapers : rpc[r] = "range"

\* C10: when the reaper closes a session's event sink the session's status is
\* terminal, and when it removes a session from the map the session's status is
\* terminal and its event sink, if any, is closed.
C10_TerminalBeforeCloseBeforeRemove ==
  [][\A r \in Reapers :
       /\ (rpc[r] = "sweep" /\ rpc'[r] = "delete" /\ sess[rses'[r]].evtSource # "nil") =>
            sess[rses'[r]].status \in Terminal
       /\ (rpc[r] = "delete" /\ rpc'[r] = "sweep" /\ m[rtoken[r]] # NIL) =>
            /\ sess[m[rtoken[r]]].status \in Terminal
            /\ sess[m[rtoken[r]]].evtSource # "open"]_vars


\* C11: post-state of newSession: the session it returns is registered under its
\* token (get returns it); status, prevStatus and result.status are INITIALIZED;
\* result.token and result.type are the session's token and action; lastActive is
\* the time of the call; the context is 1 and the nonce is one the server
\* generated, not the one the requestor submitted.
C11_NewSessionPostState ==
  [][\A h \in Handlers :
       (hpc[h] = "add" /\ hpc'[h] = "ret") =>
         LET i == hses[h]
             s == sess'[i]
         IN /\ s.token = htoken[h]
            /\ m'[s.token] = i
            /\ s.status = StatusInitialized
            /\ s.prevStatus = StatusInitialized
            /\ s.resultStatus = StatusInitialized
            /\ s.resultToken = s.token
            /\ s.resultType = s.action
            /\ s.action \in Actions
            /\ s.lastActive = now
            /\ s.context = 1
            /\ s.nonce \in GeneratedNonces
            /\ s.nonce \notin SubmittedNonces]_vars

C11_Witness ==
  \E h \in Handlers :
    /\ hpc[h] = "ret" /\ hop[h] = "new" /\ now > 0
    /\ m[htoken[h]] = hses[h]
    /\ sess[hses[h]].action = "issuing" /\ sess[hses[h]].nonce = 12
    /\ \E t \in Tokens \ {htoken[h]} : m[t] # NIL /\ sess[m[t]].action = "signing"


\* C12: two handlers never hold the same session's mutex at once. A SubmitResponse
\* that finds the session CONNECTED advances it to COMMUNICATING and succeeds;
\* one that finds any other status returns unexpectedRequest and changes
\* nothing; of two SubmitResponse calls on the same session at most one succeeds.
C12_InSession(h, i) == hses[h] = i /\ hpc[h] \in {"body", "verify"}
C12_Submitted(h, i) == hop[h] = "submit" /\ hses[h] = i /\ hpc[h] \in {"verify", "ret"}
C12_OneSubmitAdvances ==
  /\ [](\A h \in Handlers, g \in Handlers, i \in SessIds :
          /\ (h # g) => ~(C12_InSession(h, i) /\ C12_InSession(g, i))
          /\ (h # g /\ C12_Submitted(h, i) /\ C12_Submitted(g, i)) =>
               (hres[h] = "unexpectedRequest" \/ hres[g] = "unexpectedRequest"))
  /\ [][\A h \in Handlers :
          (hop[h] = "submit" /\ hpc[h] = "body" /\ hpc'[h] # "body") =>
            IF sess[hses[h]].status = StatusConnected
              THEN /\ sess'[hses[h]].status = StatusCommunicating
                   /\ hres'[h] # "unexpectedRequest"
              ELSE /\ hres'[h] = "unexpectedRequest"
                   /\ sess' = sess]_vars

C12_Witness ==
  \E h \in Handlers, g \in Handlers :
    /\ h # g /\ hses[h] # NIL
    /\ C12_Submitted(h, hses[h]) /\ C12_Submitted(g, hses[h])
    /\ hpc[h] = "ret" /\ hres[h] = "ok"
    /\ hpc[g] = "ret" /\ hres[g] = "unexpectedRequest"
    /\ sess[hses[h]].status = StatusDone
    /\ sess[hses[h]].prevStatus = StatusCommunicating


\* C13: on the first contact of a client with range [v, vmax], with the server
\* supporting 2.4 only: if max(2.4, v) <= min(2.4, vmax) the version is
\* min(2.4, vmax) and the session becomes CONNECTED; otherwise no version is set,
\* the session becomes CANCELLED and the error is protocolVersionNotSupported. A
\* version that is set lies between 2.4 and 2.4.
C13_Number(ver) == ver[1] * 100 + ver[2]
C13_Lowest(a, b) == IF a <= b THEN a ELSE b
C13_Highest(a, b) == IF a >= b THEN a ELSE b
C13_NegotiatedVersion ==
  (nego.pc = "done" /\ nego.ses.status = StatusInitialized) =>
    LET from == C13_Highest(204, C13_Number(nego.v))
        upto == C13_Lowest(204, C13_Number(nego.vmax))
    IN /\ (from <= upto) =>
            /\ C13_Number(nego.version) = upto
            /\ nego.after.status = StatusConnected
            /\ nego.res = "ok"
       /\ ~(from <= upto) =>
            /\ nego.version = NoVersion
            /\ nego.after.status = StatusCancelled
            /\ nego.res = "protocolVersionNotSupported"
       /\ (nego.version # NoVersion) =>
            (204 <= C13_Number(nego.version) /\ C13_Number(nego.version) <= 204)

C13_Witness ==
  /\ nego.pc = "done" /\ nego.ses.status = StatusInitialized
  /\ nego.v = <<2, 3>> /\ nego.vmax = <<2, 5>>
  /\ nego.version = <<2, 4>> /\ nego.after.status = StatusConnected


\* C14: when the key of a permission type is not set, handlePermission returns the
\* empty list for issue-perms, in production mode and outside it, and the
\* wildcard list for disclose-perms and sign-perms outside production mode.
C14_DefaultPermissions ==
  (perm.pc = "done" /\ ~perm.isSet) =>
    /\ (perm.typ = "issue-perms") => perm.result = Slice(<<>>)
    /\ (perm.typ \in {"disclose-perms", "sign-perms"} /\ ~perm.production) =>
         perm.result = Slice(<<"*">>)


\* C15: the token newSessionToken returns has exactly 20 characters, each of them a
\* lower-case letter, an upper-case letter or a digit.
C15_Letters ==
  {"a", "b", "c", "d", "e", "f", "g", "h", "i", "j", "k", "l", "m",
   "n", "o", "p", "q", "r", "s", "t", "u", "v", "w", "x", "y", "z"}
C15_Capitals ==
  {"A", "B", "C", "D", "E", "F", "G", "H", "I", "J", "K", "L", "M",
   "N", "O", "P", "Q", "R", "S", "T", "U", "V", "W", "X", "Y", "Z"}
C15_Digits == {"0", "1", "2", "3", "4", "5", "6", "7", "8", "9"}
C15_TokenFormat ==
  (tokgen.pc = "done") =>
    /\ Len(tokgen.b) = 20
    /\ \A i \in 1..Len(tokgen.b) :
         tokgen.b[i] \in C15_Letters \cup C15_Capitals \cup C15_Digits
    /\ Cardinality(C15_Letters \cup C15_Capitals \cup C15_Digits) = 62

C15_Witness ==
  /\ tokgen.pc = "done"
  /\ tokgen.b[1] = "Z" /\ tokgen.b[2] = "6" /\ tokgen.b[3] = "d" /\ tokgen.b[20] = "8"


\* C16: every step that reads or writes the status, lastActive or event sink of a
\* registered session is taken by a thread that holds that session's mutex: a
\* step that changes one of these fields finds the mutex held, the reaper holds it
\* when it inspects a session in its first loop, and holds it when it inspects and
\* closes the event sink in its second loop.
C16_Fields(s) == <<s.status, s.lastActive, s.evtSource>>
C16_AccessUnderSessionMutex ==
  [][/\ \A i \in SessIds :
          (Exists(i) /\ InStore(i) /\ C16_Fields(sess'[i]) # C16_Fields(sess[i])) =>
            mu[i] # "none"
     /\ \A r \in Reapers :
          /\ Inspected(r) => mu[rses[r]] = r
          /\ (rpc[r] = "sweep" /\ rpc'[r] = "delete") => mu[rses'[r]] = r]_vars


\* C17: a thread that requests the store lock holds no session mutex, and no thread
\* waits for a lock that no thread will ever release: the reaper, once called,
\* obtains the read lock and later the write lock of the lock it locks, so that
\* every call of deleteExpired returns.
C17_RequestsStoreLock(th) ==
  \/ th \in Handlers /\ hpc[th] = "addlock"
  \/ th \in Reapers /\ rpc[th] \in {"rlock", "wlock"}
C17_BlockedForever(r) ==
  \/ rpc[r] = "rlock" /\ rlk[r].w
  \/ rpc[r] = "wlock" /\ (rlk[r].w \/ rlk[r].r # 0)
C17_LockOrderNoDeadlock ==
  /\ \A th \in Threads, i \in SessIds : C17_RequestsStoreLock(th) => mu[i] # th
  /\ \A h \in Handlers, i \in SessIds :
       ~(hpc[h] = "idle" /\ mu[i] = h)
  /\ \A r \in Reapers : ~C17_BlockedForever(r)


\* C18: eviction takes two passes. For a session with clientTimeout = 0 that no
\* handler touches, an undisturbed pass at time t leaves it INITIALIZED, with its
\* lastActive, when t <= lastActive + 5 minutes; sets it to TIMEOUT, with
\* lastActive = t, and keeps it in the store when t > lastActive + 5 minutes;
\* leaves a session in TIMEOUT as it is when t <= lastActive + 5 minutes; and
\* removes it when t > lastActive + 5 minutes, after which its token is absent.
C18_TwoPassEviction ==
  \A r \in Reapers :
    (rpc[r] = "done" /\ quiet[r]) =>
      \A tok \in Tokens :
        (passM[r][tok] # NIL /\ passS[r][passM[r][tok]].clientTimeout = 0) =>
          LET i == passM[r][tok]
              s0 == passS[r][i]
              t == passT[r]
              late == t > s0.lastActive + FiveMinutes
          IN /\ (s0.status = StatusInitialized /\ ~late) =>
                  /\ m[tok] = i /\ sess[i].status = StatusInitialized
                  /\ sess[i].lastActive = s0.lastActive
             /\ (s0.status = StatusInitialized /\ late) =>
                  /\ m[tok] = i /\ sess[i].status = StatusTimeout
                  /\ sess[i].lastActive = t
             /\ (s0.status = StatusTimeout /\ ~late) => (m[tok] = i /\ sess[i] = s0)
             /\ (s0.status = StatusTimeout /\ late) => m[tok] = NIL

\* the second pass of the timeline: the session was set to TIMEOUT by the pass at
\* 5 minutes and 1 second, and the pass at 10 minutes and 2 seconds removed it
C18_Witness ==
  \E r \in Reapers, tok \in Tokens :
    /\ rpc[r] = "done" /\ quiet[r] /\ passT[r] = 602
    /\ passM[r][tok] # NIL
    /\ passS[r][passM[r][tok]].status = StatusTimeout
    /\ passS[r][passM[r][tok]].prevStatus = StatusInitialized
    /\ passS[r][passM[r][tok]].lastActive = 301
    /\ passS[r][passM[r][tok]].clientTimeout = 0
    /\ m[tok] = NIL


\* C19: request, called with a supported method (and no object for GET): an object
\* that cannot be marshalled gives a serialization error and a request that
\* cannot be built or sent gives a transport error, both without reading a
\* response; once the request was sent, GET and POST give api for a status other
\* than 200 whose body is an ApiError with an error name, serverResponse for any
\* other body of such a status and for a 200 body that does not decode into the
\* result, and DELETE gives no error whatever the status, without reading a body.
C19_Supported ==
  /\ http.method \in {"GET", "POST", "DELETE"}
  /\ ~(http.method = "GET" /\ http.object # "nil")
C19_Sent == http.object # "unmarshalable" /\ http.x.newRequestOk /\ http.x.doOk
C19_Named == http.x.readOk /\ http.x.body = "apierror"
C19_Decodes ==
  /\ http.x.readOk
  /\ \/ http.result = "string"
     \/ http.result = "struct" /\ http.x.body \in {"apierror", "object"}
C19_ErrorClassification ==
  (http.pc = "done" /\ C19_Supported) =>
    /\ (http.object = "unmarshalable") =>
         (http.out.err = "serialization" /\ ~http.out.read)
    /\ (http.object # "unmarshalable" /\ ~(http.x.newRequestOk /\ http.x.doOk)) =>
         (http.out.err = "transport" /\ ~http.out.read)
    /\ (C19_Sent /\ http.method # "DELETE" /\ http.x.status # 200) =>
         http.out.err = (IF C19_Named THEN "api" ELSE "serverResponse")
    /\ (C19_Sent /\ http.method # "DELETE" /\ http.x.status = 200) =>
         http.out.err = (IF C19_Decodes THEN "nil" ELSE "serverResponse")
    /\ (C19_Sent /\ http.method = "DELETE") =>
         (http.out.err = "nil" /\ http.out.sent /\ ~http.out.read)

C19_Witness ==
  /\ http.pc = "done" /\ http.method = "DELETE" /\ http.x.status = 500
  /\ http.x.body = "apierror" /\ http.out.err = "nil" /\ http.out.sent


\* C20: if from some point on no handler runs, while the reaper keeps running and
\* time keeps advancing, then every session in the store is eventually removed:
\* the store is eventually empty and stays empty.
C20_HandlersIdle == \A h \in Handlers : hpc[h] = "idle"
C20_EventualEviction == (<>[]C20_HandlersIdle) => <>[](Keys = {})


\* C21: when the second loop of a sweep processes a token its first loop recorded,
\* the token is still mapped, to a session that is terminal and expired and whose
\* event sink has not been closed already; so the step neither dereferences a
\* missing entry nor closes a sink twice, and what it deletes is a terminal,
\* expired session.
C21_Processes(r) == rpc[r] = "sweep" /\ ridx[r] <= Len(expired[r]) /\ rpc'[r] # rpc[r]
C21_SecondPhaseFindsInspected ==
  [][\A r \in Reapers :
       /\ (rpc[r] = "sweep" /\ ridx[r] <= Len(expired[r]) /\ fatal' # fatal) =>
            fatal' \notin {"nil", "close"}
       /\ C21_Processes(r) =>
            LET i == m[expired[r][ridx[r]]]
            IN /\ i # NIL
               /\ sess[i].status \in Terminal
               /\ sess[i].lastActive + FiveMinutes < now
               /\ sess[i].evtSource # "closed"
       /\ (rpc[r] = "delete" /\ rpc'[r] = "sweep") =>
            /\ m[rtoken[r]] = rses[r]
            /\ sess[rses[r]].status \in Terminal]_vars

====
